---- MODULE Spec2Model ----
(***************************************************************************)
(* Model of src/compiler/sys/resolve/resolve-module-async.ts:              *)
(* resolveModuleIdAsync, the callback bridge built by                      *)
(* createCustomResolverAsync, and normalizePkgData.                        *)
(*                                                                         *)
(* JavaScript values are records [t, v, code]: t is the typeof/class tag,  *)
(* v the text of a string (a sequence of tokens, <<>> being the empty      *)
(* string) or the message of an error, code the error's code property.     *)
(* Paths are strings whose tokens are separators ("/" or "\\") and names.  *)
(***************************************************************************)
EXTENDS Naturals, Sequences, FiniteSets

\* Number of filesystem probes the resolution engine issues in one resolution.
MaxProbes == 2

(***************************************************************************)
(* JavaScript values                                                       *)
(***************************************************************************)
JS(t, v, code) == [t |-> t, v |-> v, code |-> code]

UNDEF == JS("undefined", <<>>, "")

NULL == JS("null", <<>>, "")

Str(s) == JS("string", s, "")

Num(n) == JS("number", <<n>>, "")

Bool(b) == JS("boolean", IF b THEN <<"true">> ELSE <<"false">>, "")

Fn(name) == JS("function", <<name>>, "")

Arr(items) == JS("array", items, "")

ErrObj(msg, code) == JS("Error", msg, code)

\* JavaScript truthiness, as used by `if (x)`, `!x`, `a && b` and `c ? x : y`.
Truthy(x) ==
  CASE x.t \in {"undefined", "null"} -> FALSE
    [] x.t = "string" -> x.v # <<>>
    [] x.t = "boolean" -> x.v = <<"true">>
    [] x.t = "number" -> x.v # <<"0">>
    [] OTHER -> TRUE

\* isString from @utils: typeof v === 'string'.
isString(x) == x.t = "string"

(***************************************************************************)
(* Path utilities                                                          *)
(***************************************************************************)
\* normalizePath from @utils: platform separators become "/".
normalizePath(s) == [i \in 1..Len(s) |-> IF s[i] = "\\" THEN "/" ELSE s[i]]

\* normalizeFsPath from @utils.
normalizeFsPath(s) == normalizePath(s)

\* Index of the last separator token of s, 0 when there is none.
LastSep(s) ==
  LET seps == {i \in 1..Len(s) : s[i] \in {"/", "\\"}}
  IN IF seps = {} THEN 0 ELSE CHOOSE i \in seps : \A j \in seps : j <= i

\* dirname from 'path'.
dirname(s) ==
  LET k == LastSep(s)
  IN IF k = 0 THEN <<".">> ELSE IF k = 1 THEN <<s[1]>> ELSE SubSeq(s, 1, k - 1)

\* getPackageDirPath from ./resolve-utils: the package root below the last
\* node_modules for a bare identifier, the resolved file's directory otherwise.
getPackageDirPath(p, moduleId) ==
  LET nm == {i \in 1..Len(p) : p[i] = "node_modules" /\ i + 2 <= Len(p)}
      bare == moduleId # <<>> /\ moduleId[1] \notin {".", "/", "\\"}
  IN IF bare /\ nm # {}
       THEN SubSeq(p, 1, (CHOOSE i \in nm : \A j \in nm : j <= i) + 2)
       ELSE dirname(p)

(***************************************************************************)
(* Package manifests: an object with the fields name, version, main and    *)
(* license (standing for every other field), or no manifest at all.        *)
(***************************************************************************)
Pkg(t, name, version, main, license) ==
  [t |-> t, name |-> name, version |-> version, main |-> main, license |-> license]

\* pkgData === undefined
NoPkg == Pkg("undefined", UNDEF, UNDEF, UNDEF, UNDEF)

\* {}
EmptyObj == Pkg("object", UNDEF, UNDEF, UNDEF, UNDEF)

Names == {UNDEF, Num("1"), Str(<<>>), Str(<<"pkg">>)}

Versions == {UNDEF, Str(<<>>), Str(<<"1.2.3">>)}

Mains == {Num("1"), Str(<<>>), Str(<<"index.js">>)}

Licenses == {UNDEF, Str(<<"MIT">>)}

Manifests ==
  {Pkg("object", n, v, m, l) : n \in Names, v \in Versions, m \in Mains, l \in Licenses}

(***************************************************************************)
(* Inputs                                                                  *)
(***************************************************************************)
ModuleIds == {<<>>, <<"pkg">>, <<".", "/", "a">>}

ContainingFiles == {<<"\\", "proj", "\\", "index.ts">>}

ProbePaths ==
  { <<"\\", "proj", "\\", "a.js">>,
    <<"/", "proj", "/", "node_modules", "/", "pkg", "/", "package.json">> }

CustomFilterFn == Fn("custom")

DefaultFilterFn == Fn("default")

PackageFilters == {UNDEF, NULL, CustomFilterFn}

Extensions == {Arr(<<".ts", ".js">>)}

(***************************************************************************)
(* resolveModuleIdAsync: the package filter handed to the engine            *)
(***************************************************************************)
\* EffectivePackageFilter with a plain else: the null marker is not honoured.
EffectivePackageFilter_NullIgnored(pf) ==
  IF Truthy(pf) THEN pf ELSE DefaultFilterFn

\* The value of resolverOpts.packageFilter after the if / else-if; UNDEF when
\* the property is never assigned.
EffectivePackageFilter(pf) ==
  IF Truthy(pf) THEN pf
  ELSE IF pf # NULL THEN DefaultFilterFn
  ELSE UNDEF

\* The default filter closure.
DefaultPackageFilter(pkg) ==
  IF ~isString(pkg.main) \/ pkg.main = Str(<<>>)
    THEN [pkg EXCEPT !.main = Str(<<"package.json">>)]
    ELSE pkg

\* A caller-supplied filter: it points main at the caller's own entry file.
CustomPackageFilter(pkg) == [pkg EXCEPT !.main = Str(<<"lib.js">>)]

\* The engine's use of opts.packageFilter on a manifest it has parsed.
ApplyPackageFilter(f, pkg) ==
  IF f = UNDEF THEN pkg
  ELSE IF f = DefaultFilterFn THEN DefaultPackageFilter(pkg)
  ELSE CustomPackageFilter(pkg)

(***************************************************************************)
(* normalizePkgData                                                        *)
(***************************************************************************)
\* normalizePkgData without the length checks: an empty string is kept.
normalizePkgData_EmptyKept(pkgData, moduleId) ==
  LET spread == IF pkgData.t \in {"undefined", "null"} THEN EmptyObj ELSE pkgData
      named == IF ~isString(spread.name)
                 THEN [spread EXCEPT !.name = Str(moduleId)]
                 ELSE spread
  IN IF ~isString(named.version)
       THEN [named EXCEPT !.version = Str(<<"0.0.0">>)]
       ELSE named

\* normalizePkgData whose name default reads the wrong field (the version).
normalizePkgData_WrongField(pkgData, moduleId) ==
  LET spread == IF pkgData.t \in {"undefined", "null"} THEN EmptyObj ELSE pkgData
      named == IF ~isString(spread.name) \/ Len(spread.name.v) = 0
                 THEN [spread EXCEPT !.name = spread.version]
                 ELSE spread
  IN IF ~isString(named.version) \/ Len(named.version.v) = 0
       THEN [named EXCEPT !.version = Str(<<"0.0.0">>)]
       ELSE named

normalizePkgData(pkgData, moduleId) ==
  LET spread == IF pkgData.t \in {"undefined", "null"} THEN EmptyObj ELSE pkgData
      named == IF ~isString(spread.name) \/ Len(spread.name.v) = 0
                 THEN [spread EXCEPT !.name = Str(moduleId)]
                 ELSE spread
  IN IF ~isString(named.version) \/ Len(named.version.v) = 0
       THEN [named EXCEPT !.version = Str(<<"0.0.0">>)]
       ELSE named

(***************************************************************************)
(* The callback resolveModuleIdAsync hands to the engine                   *)
(***************************************************************************)
NoResults == [moduleId |-> <<>>, resolveId |-> <<>>, pkgData |-> NoPkg, pkgDirPath |-> <<>>]

Pending == [state |-> "pending", reason |-> UNDEF, results |-> NoResults]

\* OnResolve without the guard on an empty resolveId.
OnResolve_Unguarded(err, resolveId, pkgData, moduleId) ==
  IF Truthy(err)
    THEN [state |-> "rejected", reason |-> err, results |-> NoResults]
  ELSE LET normalizedResolveId == normalizePath(resolveId.v)
       IN [state |-> "fulfilled", reason |-> UNDEF,
           results |-> [moduleId |-> moduleId,
                        resolveId |-> normalizedResolveId,
                        pkgData |-> normalizePkgData(pkgData, moduleId),
                        pkgDirPath |-> getPackageDirPath(normalizedResolveId, moduleId)]]

\* The settlement the callback asks of the promise for (err, resolveId, pkgData).
OnResolve(err, resolveId, pkgData, moduleId) ==
  IF Truthy(err)
    THEN [state |-> "rejected", reason |-> err, results |-> NoResults]
  ELSE IF ~Truthy(resolveId)
    THEN [state |-> "rejected",
          reason |-> ErrObj(<<"Unable to resolve module: ">> \o moduleId, ""),
          results |-> NoResults]
  ELSE LET normalizedResolveId == normalizePath(resolveId.v)
       IN [state |-> "fulfilled", reason |-> UNDEF,
           results |-> [moduleId |-> moduleId,
                        resolveId |-> normalizedResolveId,
                        pkgData |-> normalizePkgData(pkgData, moduleId),
                        pkgDirPath |-> getPackageDirPath(normalizedResolveId, moduleId)]]

(***************************************************************************)
(* createCustomResolverAsync: what each bridge operation passes to cb      *)
(* once its awaited filesystem call has produced a value                   *)
(***************************************************************************)
\* n is the number of arguments cb is called with.
CbArgs(err, val, n) == [err |-> err, val |-> val, n |-> n]

\* IsFileCallback reading the directory flag.
IsFileCallback_WrongFlag(stat) ==
  IF Truthy(stat.isDirectory) THEN CbArgs(NULL, Bool(TRUE), 2) ELSE CbArgs(NULL, Bool(FALSE), 2)

IsFileCallback(stat) ==
  IF Truthy(stat.isFile) THEN CbArgs(NULL, Bool(TRUE), 2) ELSE CbArgs(NULL, Bool(FALSE), 2)

IsDirectoryCallback(stat) ==
  IF Truthy(stat.isDirectory) THEN CbArgs(NULL, Bool(TRUE), 2) ELSE CbArgs(NULL, Bool(FALSE), 2)

\* ReadFileCallback testing truthiness instead of isString: empty text is a miss.
ReadFileCallback_Truthy(data, p) ==
  IF Truthy(data) THEN CbArgs(NULL, data, 2)
  ELSE CbArgs(Str(<<"readFile not found: ">> \o p), UNDEF, 1)

ReadFileCallback(data, p) ==
  IF isString(data) THEN CbArgs(NULL, data, 2)
  ELSE CbArgs(Str(<<"readFile not found: ">> \o p), UNDEF, 1)

\* RealpathCallback without the ENOENT exemption: every error is passed on.
RealpathCallback_NoExemption(results, fsFilePath) ==
  IF Truthy(results.error)
    THEN CbArgs(results.error, UNDEF, 1)
    ELSE CbArgs(NULL, results.path, 2)

RealpathCallback(results, fsFilePath) ==
  IF Truthy(results.error) /\ results.error.code # "ENOENT"
    THEN CbArgs(results.error, UNDEF, 1)
    ELSE CbArgs(NULL, IF Truthy(results.error) THEN Str(fsFilePath) ELSE results.path, 2)

(***************************************************************************)
(* The filesystem capability: what an awaited call can produce             *)
(***************************************************************************)
\* kind: "value" (the promise resolves with a result), "absent" (it resolves
\* with undefined) or "reject" (it rejects with error).
Awaited(kind, isFile, isDir, data, path, error) ==
  [kind |-> kind, isFile |-> isFile, isDirectory |-> isDir,
   data |-> data, path |-> path, error |-> error]

NoAwaited == Awaited("none", UNDEF, UNDEF, UNDEF, UNDEF, UNDEF)

AbsentResult == Awaited("absent", UNDEF, UNDEF, UNDEF, UNDEF, UNDEF)

Rejection == Awaited("reject", UNDEF, UNDEF, UNDEF, UNDEF, ErrObj(<<"EIO">>, "EIO"))

\* inMemoryFs.stat: a file, a directory, a missing path (flags false or unset).
StatOutcomes ==
  { Awaited("value", Bool(TRUE), Bool(FALSE), UNDEF, UNDEF, UNDEF),
    Awaited("value", Bool(FALSE), Bool(TRUE), UNDEF, UNDEF, UNDEF),
    Awaited("value", Bool(FALSE), Bool(FALSE), UNDEF, UNDEF, UNDEF),
    Awaited("value", UNDEF, UNDEF, UNDEF, UNDEF, UNDEF),
    AbsentResult, Rejection }

\* inMemoryFs.readFile
ReadFileOutcomes ==
  {Awaited("value", UNDEF, UNDEF, d, UNDEF, UNDEF) : d \in {Str(<<>>), Str(<<"{}">>), NULL}}
    \cup {AbsentResult, Rejection}

CanonicalPath == <<"/", "real", "/", "a.js">>

\* sys.realpath
RealpathOutcomes ==
  {Awaited("value", UNDEF, UNDEF, UNDEF, Str(CanonicalPath), e) : e \in {UNDEF, NULL}}
    \cup {Awaited("value", UNDEF, UNDEF, UNDEF, UNDEF, e) :
            e \in {ErrObj(<<"no such file">>, "ENOENT"),
                   ErrObj(<<"permission denied">>, "EACCES"),
                   ErrObj(<<"failed">>, "")}}
    \cup {AbsentResult, Rejection}

Outcomes(op) ==
  CASE op \in {"isFile", "isDirectory"} -> StatOutcomes
    [] op = "readFile" -> ReadFileOutcomes
    [] OTHER -> RealpathOutcomes

\* An awaited call that makes the async bridge function reject instead of
\* reaching its cb: the await rethrows a rejection, and reading a property of
\* undefined (stat.isFile, stat.isDirectory, results.error) throws.
AwaitThrows(op, a) ==
  a.kind = "reject" \/ (a.kind = "absent" /\ op \in {"isFile", "isDirectory", "realpath"})

(***************************************************************************)
(* State                                                                   *)
(***************************************************************************)
VARIABLES
  opts,         \* the ResolveModuleIdOptions of the call
  resolverOpts, \* the options handed to the engine
  promise,      \* the promise resolveModuleIdAsync returns
  settleCalls,  \* calls of resolvePromise / rejectPromise so far
  pc,           \* "start", "search", "probing", "done": the engine's position
  probes,       \* filesystem probes issued so far
  probe,        \* the bridge call in progress or last completed
  bridgePc,     \* "idle", "await", "resume", "called", "rejected"
  awaited,      \* what the awaited filesystem call produced
  cb,           \* the arguments of the bridge call's last cb invocation
  cbCount,      \* invocations of cb for the current bridge call
  rawPkg,       \* the manifest the engine last parsed
  pkg,          \* that manifest after the package filter
  engineOut     \* the arguments the engine completed with

vars ==
  <<opts, resolverOpts, promise, settleCalls, pc, probes, probe, bridgePc,
    awaited, cb, cbCount, rawPkg, pkg, engineOut>>

NoProbe == [op |-> "none", p |-> <<>>, fsPath |-> <<>>]

NoCb == CbArgs(UNDEF, UNDEF, 0)

NoOut == [err |-> UNDEF, resolveId |-> UNDEF, pkgData |-> NoPkg]

Init ==
  /\ opts \in [moduleId : ModuleIds, containingFile : ContainingFiles,
               exts : Extensions, packageFilter : PackageFilters]
  /\ resolverOpts = [basedir |-> <<>>, packageFilter |-> UNDEF, extensions |-> UNDEF]
  /\ promise = Pending
  /\ settleCalls = 0
  /\ pc = "start"
  /\ probes = 0
  /\ probe = NoProbe
  /\ bridgePc = "idle"
  /\ awaited = NoAwaited
  /\ cb = NoCb
  /\ cbCount = 0
  /\ rawPkg = NoPkg
  /\ pkg = NoPkg
  /\ engineOut = NoOut

(***************************************************************************)
(* resolveModuleIdAsync up to the call of the engine                       *)
(***************************************************************************)
resolveModuleIdAsync ==
  /\ pc = "start"
  /\ resolverOpts' = [basedir |-> dirname(normalizeFsPath(opts.containingFile)),
                      packageFilter |-> EffectivePackageFilter(opts.packageFilter),
                      extensions |-> opts.exts]
  /\ promise' = Pending
  /\ pc' = "search"
  /\ UNCHANGED <<opts, settleCalls, probes, probe, bridgePc, awaited, cb, cbCount,
                 rawPkg, pkg, engineOut>>

(***************************************************************************)
(* The bridge: each operation up to its await                              *)
(***************************************************************************)
\* The engine calls a bridge operation with path p; the operation normalizes
\* the path and awaits the filesystem call.
BridgeCall(op, p) ==
  /\ pc = "search"
  /\ probes < MaxProbes
  /\ probes' = probes + 1
  /\ probe' = [op |-> op, p |-> p, fsPath |-> normalizeFsPath(p)]
  /\ bridgePc' = "await"
  /\ awaited' = NoAwaited
  /\ cb' = NoCb
  /\ cbCount' = 0
  /\ pc' = "probing"
  /\ UNCHANGED <<opts, resolverOpts, promise, settleCalls, rawPkg, pkg, engineOut>>

isFile == \E p \in ProbePaths : BridgeCall("isFile", p)

isDirectory == \E p \in ProbePaths : BridgeCall("isDirectory", p)

readFile == \E p \in ProbePaths : BridgeCall("readFile", p)

realpath == \E p \in ProbePaths : BridgeCall("realpath", p)

\* The awaited filesystem call settles.
FsSettle ==
  /\ bridgePc = "await"
  /\ \E a \in Outcomes(probe.op) : awaited' = a
  /\ bridgePc' = "resume"
  /\ UNCHANGED <<opts, resolverOpts, promise, settleCalls, pc, probes, probe, cb,
                 cbCount, rawPkg, pkg, engineOut>>

(***************************************************************************)
(* The bridge: each operation after its await                              *)
(***************************************************************************)
\* The async function resumes: it either rejects, and cb is never reached,
\* or calls cb with args, which hands control back to the engine.
BridgeResume(op, args) ==
  /\ bridgePc = "resume"
  /\ probe.op = op
  /\ IF AwaitThrows(op, awaited)
       THEN /\ bridgePc' = "rejected"
            /\ UNCHANGED <<cb, cbCount, pc>>
       ELSE /\ bridgePc' = "called"
            /\ cb' = args
            /\ cbCount' = cbCount + 1
            /\ pc' = "search"
  /\ UNCHANGED <<opts, resolverOpts, promise, settleCalls, probes, probe, awaited,
                 rawPkg, pkg, engineOut>>

isFileResume == BridgeResume("isFile", IsFileCallback(awaited))

isDirectoryResume == BridgeResume("isDirectory", IsDirectoryCallback(awaited))

readFileResume == BridgeResume("readFile", ReadFileCallback(awaited.data, probe.p))

realpathResume == BridgeResume("realpath", RealpathCallback(awaited, probe.fsPath))

(***************************************************************************)
(* The resolution engine                                                   *)
(***************************************************************************)
\* The engine parses the manifest it has just read and applies the package
\* filter it was given.
EngineLoadPackage ==
  /\ pc = "search"
  /\ probe.op = "readFile"
  /\ bridgePc = "called"
  /\ cb.err = NULL
  /\ cb.val # Str(<<>>)
  /\ \E m \in Manifests :
       /\ rawPkg' = m
       /\ pkg' = ApplyPackageFilter(resolverOpts.packageFilter, m)
  /\ UNCHANGED <<opts, resolverOpts, promise, settleCalls, pc, probes, probe,
                 bridgePc, awaited, cb, cbCount, engineOut>>

ResolveIds ==
  {UNDEF, Str(<<>>)} \cup {Str(p) : p \in ProbePaths} \cup {Str(CanonicalPath)}

EngineErrors ==
  {ErrObj(<<"Cannot find module">>, "MODULE_NOT_FOUND")}

\* What the engine can complete with: an error (its own, or the one the last
\* bridge call handed it), or a resolved path and the manifest it holds.
EngineOutcomes ==
  {[err |-> e, resolveId |-> UNDEF, pkgData |-> NoPkg] :
     e \in EngineErrors \cup (IF bridgePc = "called" /\ Truthy(cb.err) THEN {cb.err} ELSE {})}
    \cup {[err |-> NULL, resolveId |-> r, pkgData |-> d] : r \in ResolveIds, d \in {NoPkg, pkg}}

\* The engine completes and runs the callback of resolveModuleIdAsync, which
\* settles the promise; a settled promise ignores further settlements.
EngineComplete ==
  /\ pc = "search"
  /\ \E out \in EngineOutcomes :
       /\ engineOut' = out
       /\ promise' = IF promise.state = "pending"
                       THEN OnResolve(out.err, out.resolveId, out.pkgData, opts.moduleId)
                       ELSE promise
  /\ settleCalls' = settleCalls + 1
  /\ pc' = "done"
  /\ UNCHANGED <<opts, resolverOpts, probes, probe, bridgePc, awaited, cb, cbCount,
                 rawPkg, pkg>>

Next ==
  \/ resolveModuleIdAsync
  \/ isFile
  \/ isDirectory
  \/ readFile
  \/ realpath
  \/ FsSettle
  \/ isFileResume
  \/ isDirectoryResume
  \/ readFileResume
  \/ realpathResume
  \/ EngineLoadPackage
  \/ EngineComplete

Spec == Init /\ [][Next]_vars

(***************************************************************************)
(* Properties                                                              *)
(***************************************************************************)
\* A string that is present and not empty.
NonEmptyString(x) == x.t = "string" /\ x.v # <<>>

\* The bridge call in progress has run to its end: cb was called or the async
\* function rejected.
BridgeFinished == bridgePc \in {"called", "rejected"}

\* cb received an error and no value, or a value and no error.
ErrorXorValue(args) == (args.err # NULL /\ args.err # UNDEF) # (args.val # UNDEF)

\* C1: when the engine completes without an error but with an empty or absent
\* resolved path, the promise is rejected with a synthesized error whose
\* message names opts.moduleId; no fulfilled result has an empty resolved path.
C1_EmptyPathRejected ==
  /\ (pc = "done" /\ ~Truthy(engineOut.err) /\ engineOut.resolveId \in {UNDEF, NULL, Str(<<>>)})
       => /\ promise.state = "rejected"
          /\ promise.reason.t = "Error"
          /\ promise.reason.v = <<"Unable to resolve module: ">> \o opts.moduleId
  /\ promise.state = "fulfilled" => promise.results.resolveId # <<>>

C1_Witness ==
  /\ pc = "done"
  /\ engineOut.err = NULL
  /\ engineOut.resolveId = Str(<<>>)
  /\ opts.moduleId = <<"pkg">>
  /\ promise.state = "rejected"
  /\ promise.reason.v = <<"Unable to resolve module: ", "pkg">>

\* C2: every call settles its promise exactly once whatever the filesystem
\* capability does: never twice, never pending with nothing left to run, and
\* an engine error is the rejection reason unchanged.
C2_SettlesExactlyOnce ==
  /\ settleCalls <= 1
  /\ promise.state = "pending" => ENABLED Next
  /\ pc = "done" => /\ settleCalls = 1
                    /\ promise.state \in {"fulfilled", "rejected"}
                    /\ Truthy(engineOut.err)
                         => promise.state = "rejected" /\ promise.reason = engineOut.err

\* C3: the package filter handed to the engine is the caller's function when
\* one is given, none for the null marker, and otherwise the default filter,
\* which sets main to "package.json" exactly when main is not a non-empty
\* string and changes nothing else.
C3_PackageFilterPolicy ==
  /\ pc # "start" =>
       /\ opts.packageFilter.t = "function" => resolverOpts.packageFilter = opts.packageFilter
       /\ opts.packageFilter = NULL => resolverOpts.packageFilter = UNDEF
       /\ opts.packageFilter = UNDEF => resolverOpts.packageFilter = DefaultFilterFn
  /\ rawPkg # NoPkg =>
       /\ opts.packageFilter.t = "function" => pkg = CustomPackageFilter(rawPkg)
       /\ opts.packageFilter = NULL => pkg = rawPkg
       /\ opts.packageFilter = UNDEF =>
            /\ pkg.main = IF rawPkg.main.t = "string" /\ rawPkg.main.v # <<>>
                            THEN rawPkg.main ELSE Str(<<"package.json">>)
            /\ pkg.name = rawPkg.name
            /\ pkg.version = rawPkg.version
            /\ pkg.license = rawPkg.license

C3_Witness ==
  /\ opts.packageFilter = UNDEF
  /\ rawPkg.t = "object"
  /\ rawPkg.main = Str(<<>>)
  /\ pkg.main = Str(<<"package.json">>)

\* C4: normalizePkgData returns the manifest with name replaced by the module
\* identifier and version by "0.0.0" when missing, not a string or empty, and
\* every other field as given.
C4_NormalizeDefaults ==
  promise.state = "fulfilled" =>
    LET in == engineOut.pkgData
        out == promise.results.pkgData
    IN /\ out.name = IF NonEmptyString(in.name) THEN in.name ELSE Str(opts.moduleId)
       /\ out.version = IF NonEmptyString(in.version) THEN in.version ELSE Str(<<"0.0.0">>)
       /\ out.main = in.main
       /\ out.license = in.license

C4_Witness ==
  /\ promise.state = "fulfilled"
  /\ opts.moduleId = <<".", "/", "a">>
  /\ engineOut.pkgData.name = Str(<<>>)
  /\ engineOut.pkgData.version = UNDEF
  /\ engineOut.pkgData.license = Str(<<"MIT">>)
  /\ promise.results.pkgData.name = Str(<<".", "/", "a">>)
  /\ promise.results.pkgData.version = Str(<<"0.0.0">>)

\* C5: in every result the promise is fulfilled with, pkgData.name and
\* pkgData.version are non-empty strings.
C5_NameVersionNonEmpty ==
  promise.state = "fulfilled" =>
    /\ NonEmptyString(promise.results.pkgData.name)
    /\ NonEmptyString(promise.results.pkgData.version)

\* C6: normalizePkgData is idempotent: normalizing a normalized manifest
\* again, with the same module identifier, changes no field.
C6_NormalizeIdempotent ==
  promise.state = "fulfilled" =>
    normalizePkgData(promise.results.pkgData, opts.moduleId) = promise.results.pkgData

C6_Witness ==
  /\ promise.state = "fulfilled"
  /\ engineOut.pkgData.t = "object"
  /\ ~isString(engineOut.pkgData.name)
  /\ ~isString(engineOut.pkgData.version)
  /\ promise.results.pkgData # engineOut.pkgData

\* C7: realpath has three outcomes, decided by what sys.realpath reports for
\* the normalized path: an error other than ENOENT goes to cb alone; an ENOENT
\* error gives cb no error and the normalized input path; no error gives cb
\* no error and the canonical path.
C7_RealpathOutcomes ==
  (BridgeFinished /\ probe.op = "realpath" /\ awaited.kind = "value") =>
    LET e == awaited.error
    IN /\ cbCount = 1
       /\ probe.fsPath = normalizeFsPath(probe.p)
       /\ IF e.t = "Error" /\ e.code # "ENOENT"
            THEN cb.err = e /\ cb.val = UNDEF /\ cb.n = 1
          ELSE IF e.t = "Error"
            THEN cb.err = NULL /\ cb.val = Str(normalizeFsPath(probe.p))
          ELSE cb.err = NULL /\ cb.val = awaited.path

C7_Witness ==
  /\ bridgePc = "called"
  /\ probe.op = "realpath"
  /\ probe.p = <<"\\", "proj", "\\", "a.js">>
  /\ awaited.error.code = "ENOENT"
  /\ cb.err = NULL
  /\ cb.val = Str(<<"/", "proj", "/", "a.js">>)

\* C8: every bridge operation calls its cb exactly once per call, with an
\* error or a value and never both or neither, whatever the filesystem call
\* does.
C8_CallbackExactlyOnce ==
  BridgeFinished => cbCount = 1 /\ ErrorXorValue(cb)

\* C9: isFile and isDirectory never give cb an error: for every stat of the
\* normalized path, cb gets no error and true exactly when the stat's file
\* (directory) flag is set; a missing path gives false.
C9_StatProbesNeverFail ==
  /\ probe.op \in {"isFile", "isDirectory"} => cb.err \in {NULL, UNDEF}
  /\ (BridgeFinished /\ probe.op = "isFile" /\ awaited.kind = "value")
       => /\ cbCount = 1
          /\ probe.fsPath = normalizeFsPath(probe.p)
          /\ cb = CbArgs(NULL, Bool(awaited.isFile = Bool(TRUE)), 2)
  /\ (BridgeFinished /\ probe.op = "isDirectory" /\ awaited.kind = "value")
       => /\ cbCount = 1
          /\ probe.fsPath = normalizeFsPath(probe.p)
          /\ cb = CbArgs(NULL, Bool(awaited.isDirectory = Bool(TRUE)), 2)

C9_Witness ==
  /\ bridgePc = "called"
  /\ probe.op = "isFile"
  /\ awaited.isFile = Bool(FALSE)
  /\ awaited.isDirectory = Bool(TRUE)
  /\ cb = CbArgs(NULL, Bool(FALSE), 2)

\* C10: readFile gives cb the content and no error exactly when the
\* filesystem returned text, empty text included; for anything else it
\* returns (nothing, a non-string) cb gets an error naming the requested path
\* and no content.
C10_ReadFileOutcomes ==
  (BridgeFinished /\ probe.op = "readFile" /\ awaited.kind \in {"value", "absent"}) =>
    /\ cbCount = 1
    /\ probe.fsPath = normalizeFsPath(probe.p)
    /\ IF awaited.data.t = "string"
         THEN cb = CbArgs(NULL, awaited.data, 2)
         ELSE cb = CbArgs(Str(<<"readFile not found: ">> \o probe.p), UNDEF, 1)

C10_Witness ==
  /\ bridgePc = "called"
  /\ probe.op = "readFile"
  /\ awaited.data = Str(<<>>)
  /\ cb = CbArgs(NULL, Str(<<>>), 2)

\* C8 when the awaited call did not throw: cb is called once, error xor value.
CallbackOnceWhenReached ==
  bridgePc = "called" => cbCount = 1 /\ ErrorXorValue(cb)

\* C2 but for the pending promise of a bridge call that never reached cb.
SettlesAtMostOnce ==
  /\ settleCalls <= 1
  /\ (promise.state = "pending" /\ bridgePc # "rejected") => ENABLED Next
  /\ pc = "done" => /\ settleCalls = 1
                    /\ promise.state \in {"fulfilled", "rejected"}
                    /\ Truthy(engineOut.err)
                         => promise.state = "rejected" /\ promise.reason = engineOut.err

\* C5 for module identifiers that are not the empty string.
NameVersionNonEmptyForNonEmptyId ==
  (promise.state = "fulfilled" /\ opts.moduleId # <<>>) =>
    /\ NonEmptyString(promise.results.pkgData.name)
    /\ NonEmptyString(promise.results.pkgData.version)

====
